---- MODULE Spec2Model ----
(***************************************************************************)
(* Contact directory of src/task.py: the Field value types (Name, Phone,   *)
(* Birthday), the Record aggregate, the AddressBook mapping with its       *)
(* upcoming-birthday query, and the command handlers wrapped by            *)
(* input_error.                                                            *)
(*                                                                         *)
(* Python values are modelled as follows.                                  *)
(*   str        a sequence of characters, each character a one-token       *)
(*              string ("1", "a", ".", and "sup2" for U+00B2, a character  *)
(*              for which str.isdigit() is true and which is no decimal    *)
(*              digit);                                                    *)
(*   None / x   the empty sequence / the one-element sequence <<x>>;       *)
(*   date       a record [y, m, d];                                        *)
(*   object     Records live in `heap` and are referred to by their index, *)
(*              so that a Record added to the book and the caller's        *)
(*              reference to it are the same object;                       *)
(*   dict       `book`, a sequence of [key, id] in insertion order;        *)
(*   raise      a result whose err names the exception class.              *)
(***************************************************************************)
EXTENDS Integers, Sequences, FiniteSets, TLC

VARIABLES heap, book, added, today, last

vars == <<heap, book, added, today, last>>

None == <<>>

Some(x) == <<x>>

(* ---------------------------------------------------------------- bounds *)

\* longest phone list a Record is grown to by add_phone
MaxPhones == 3

\* number of Record objects constructed through the Record/AddressBook API
MaxRecs == 3

\* longest phone list grown through the add command
MaxCmdPhones == 2

(* ------------------------------------------------------------- constants *)

NameMinLen == 2

PhoneLen == 10

days == 7

(* ------------------------------------------------------------ characters *)

AsciiDigits == {"0", "1", "2", "3", "4", "5", "6", "7", "8", "9"}

\* characters c with c.isdigit(): the decimal digits and the other characters
\* of Unicode Numeric_Type=Digit, here the superscript two
DigitChars == AsciiDigits \cup {"sup2"}

DigitVal == [c \in AsciiDigits |->
               CASE c = "0" -> 0 [] c = "1" -> 1 [] c = "2" -> 2 [] c = "3" -> 3
                 [] c = "4" -> 4 [] c = "5" -> 5 [] c = "6" -> 6 [] c = "7" -> 7
                 [] c = "8" -> 8 [] c = "9" -> 9]

DigitChar == <<"0", "1", "2", "3", "4", "5", "6", "7", "8", "9">>

Rep(c, n) == [i \in 1..n |-> c]

\* str.isdigit(): every character is a digit and there is at least one
isdigit(value) ==
    /\ Len(value) > 0
    /\ \A i \in 1..Len(value) : value[i] \in DigitChars

Upper(c) ==
    CASE c = "a" -> "A" [] c = "b" -> "B" [] c = "l" -> "L" [] c = "o" -> "O"
      [] OTHER -> c

Lower(c) ==
    CASE c = "A" -> "a" [] c = "B" -> "b" [] c = "L" -> "l" [] c = "O" -> "o"
      [] OTHER -> c

\* str.capitalize(): first character upper-cased, the rest lower-cased
capitalize(value) ==
    [i \in 1..Len(value) |-> IF i = 1 THEN Upper(value[i]) ELSE Lower(value[i])]

(* ----------------------------------------------------------------- dates *)

IsLeap(y) == y % 4 = 0 /\ (y % 100 # 0 \/ y % 400 = 0)

DaysInMonth(y, m) ==
    IF m = 2 THEN (IF IsLeap(y) THEN 29 ELSE 28)
    ELSE IF m \in {4, 6, 9, 11} THEN 30 ELSE 31

RECURSIVE DaysBeforeMonth(_, _)
DaysBeforeMonth(y, m) ==
    IF m = 1 THEN 0 ELSE DaysBeforeMonth(y, m - 1) + DaysInMonth(y, m - 1)

DaysBeforeYear(y) ==
    LET p == y - 1 IN p * 365 + (p \div 4) - (p \div 100) + (p \div 400)

\* date.toordinal()
toordinal(dt) == DaysBeforeYear(dt.y) + DaysBeforeMonth(dt.y, dt.m) + dt.d

Val(v) == [err |-> "none", value |-> v]

Fail(e) == [err |-> e, value |-> None]

\* date.replace(year=...): ValueError when the day does not exist in that year
replace_year(dt, year) ==
    IF dt.d > DaysInMonth(year, dt.m)
    THEN Fail("ValueError")
    ELSE Val([dt EXCEPT !.y = year])

RECURSIVE to_int(_)
to_int(s) ==
    IF Len(s) = 0 THEN 0
    ELSE 10 * to_int(SubSeq(s, 1, Len(s) - 1)) + DigitVal[s[Len(s)]]

\* the fields of a text between its "." characters
RECURSIVE dot_fields(_, _, _)
dot_fields(s, i, cur) ==
    IF i > Len(s) THEN <<cur>>
    ELSE IF s[i] = "." THEN <<cur>> \o dot_fields(s, i + 1, <<>>)
    ELSE dot_fields(s, i + 1, Append(cur, s[i]))

\* %d : 3[0-1] | [1-2]\d | 0[1-9] | [1-9]
MatchDay(f) ==
    \/ /\ Len(f) = 2
       /\ \/ f[1] = "3" /\ f[2] \in {"0", "1"}
          \/ f[1] \in {"1", "2"} /\ f[2] \in AsciiDigits
          \/ f[1] = "0" /\ f[2] \in AsciiDigits \ {"0"}
    \/ Len(f) = 1 /\ f[1] \in AsciiDigits \ {"0"}

\* %m : 1[0-2] | 0[1-9] | [1-9]
MatchMonth(f) ==
    \/ /\ Len(f) = 2
       /\ \/ f[1] = "1" /\ f[2] \in {"0", "1", "2"}
          \/ f[1] = "0" /\ f[2] \in AsciiDigits \ {"0"}
    \/ Len(f) = 1 /\ f[1] \in AsciiDigits \ {"0"}

\* %Y : \d\d\d\d
MatchYear(f) == Len(f) = 4 /\ \A i \in 1..4 : f[i] \in AsciiDigits

\* datetime.strptime(value, "%d.%m.%Y"), as a date
strptime(value) ==
    LET f == dot_fields(value, 1, <<>>) IN
    IF Len(f) # 3 \/ ~MatchDay(f[1]) \/ ~MatchMonth(f[2]) \/ ~MatchYear(f[3])
    THEN Fail("ValueError")
    ELSE LET dt == [y |-> to_int(f[3]), m |-> to_int(f[2]), d |-> to_int(f[1])] IN
         IF dt.y < 1 \/ dt.d > DaysInMonth(dt.y, dt.m)
         THEN Fail("ValueError")
         ELSE Val(dt)

TwoDigits(n) == <<DigitChar[((n \div 10) % 10) + 1], DigitChar[(n % 10) + 1]>>

\* date.strftime('%d.%m.%Y')
strftime(dt) ==
    TwoDigits(dt.d) \o <<".">> \o TwoDigits(dt.m) \o <<".">>
        \o TwoDigits(dt.y \div 100) \o TwoDigits(dt.y % 100)

(* ---------------------------------------------------------------- fields *)

\* Name.__init__
Name(value) ==
    IF Len(value) = 0 \/ Len(value) < NameMinLen
    THEN Fail("ValueError")
    ELSE Val(value)

\* Phone.__init__
Phone(value) ==
    IF ~isdigit(value) \/ Len(value) # PhoneLen
    THEN Fail("ValueError")
    ELSE Val(value)

\* Birthday.__init__; now is the date of datetime.today(): the parsed value is
\* midnight of its day, so it is later than the current moment exactly when its
\* day is later than the current day
Birthday(value, now) ==
    LET birthday_object == strptime(value) IN
    IF birthday_object.err # "none" THEN Fail("ValueError")
    ELSE IF toordinal(birthday_object.value) > toordinal(now) THEN Fail("ValueError")
    ELSE Val(birthday_object.value)

(* ---------------------------------------------------------------- Record *)
\* Every method takes the store s = [heap, book, added] and returns
\* [err, s, ret]: the exception raised ("none" when it returns), the store it
\* leaves behind and the value returned.

Ok(s, ret) == [err |-> "none", s |-> s, ret |-> ret]

Raise(e, s) == [err |-> e, s |-> s, ret |-> None]

\* Record.__init__: returns the new object
Record(s, name) ==
    LET n == Name(name) IN
    IF n.err # "none" THEN Raise(n.err, s)
    ELSE Ok([s EXCEPT !.heap = Append(@, [name |-> n.value,
                                            phones |-> <<>>,
                                            birthday |-> None])],
            Len(s.heap) + 1)

add_birthday(s, id, date, now) ==
    LET b == Birthday(date, now) IN
    IF b.err # "none" THEN Raise(b.err, s)
    ELSE Ok([s EXCEPT !.heap[id].birthday = Some(b.value)], None)

add_phone(s, id, number) ==
    LET p == Phone(number) IN
    IF p.err # "none" THEN Raise(p.err, s)
    ELSE Ok([s EXCEPT !.heap[id].phones = Append(@, p.value)], None)

\* a removal of the first match only
delete_phone_first(s, id, number) ==
    LET phones == s.heap[id].phones
        hits == {i \in DOMAIN phones : phones[i] = number}
    IN
    IF hits = {} THEN Ok(s, None)
    ELSE LET k == CHOOSE i \in hits : \A j \in hits : i <= j IN
         Ok([s EXCEPT !.heap[id].phones =
                 SubSeq(phones, 1, k - 1) \o SubSeq(phones, k + 1, Len(phones))],
            None)

delete_phone(s, id, number) ==
    Ok([s EXCEPT !.heap[id].phones = SelectSeq(@, LAMBDA phone : phone # number)],
       None)

RECURSIVE find_phone_from(_, _, _)
find_phone_from(phones, i, number) ==
    IF i > Len(phones) THEN None
    ELSE IF number = phones[i] THEN Some(phones[i])
    ELSE find_phone_from(phones, i + 1, number)

find_phone(s, id, number) == Ok(s, find_phone_from(s.heap[id].phones, 1, number))

\* a replacement of every match where it stands
edit_phone_inplace(s, id, old_number, new_number) ==
    LET phones == s.heap[id].phones IN
    IF \E i \in DOMAIN phones : phones[i] = old_number
    THEN IF Phone(new_number).err # "none" THEN Raise("ValueError", s)
         ELSE Ok([s EXCEPT !.heap[id].phones =
                      [i \in DOMAIN phones |->
                          IF phones[i] = old_number THEN new_number ELSE phones[i]]],
                 None)
    ELSE Raise("ValueError", s)

edit_phone(s, id, old_number, new_number) ==
    LET phone == find_phone(s, id, old_number).ret IN
    IF phone # None
    THEN LET new_phone == Phone(new_number) IN
         IF new_phone.err # "none" THEN Raise("ValueError", s)
         ELSE LET s1 == delete_phone(s, id, old_number).s IN
              Ok([s1 EXCEPT !.heap[id].phones = Append(@, new_phone.value)], None)
    ELSE Raise("ValueError", s)

FourDigits(n) == TwoDigits(n \div 100) \o TwoDigits(n % 100)

\* str(date): YYYY-MM-DD
isoformat(dt) ==
    FourDigits(dt.y) \o <<"-">> \o TwoDigits(dt.m) \o <<"-">> \o TwoDigits(dt.d)

\* Record.__str__, as the values it interpolates
Record_str(rec) ==
    [name |-> rec.name,
     phones |-> rec.phones,
     birthday_str |-> IF rec.birthday # None
                      THEN isoformat(rec.birthday[1])
                      ELSE <<"No birthday">>]

(* ----------------------------------------------------------- AddressBook *)

Keys(b) == [i \in DOMAIN b |-> b[i].key]

HasKey(b, k) == \E i \in DOMAIN b : b[i].key = k

\* an assignment that moves an existing key to the end
dict_set_move_to_end(b, k, v) ==
    Append(SelectSeq(b, LAMBDA e : e.key # k), [key |-> k, id |-> v])

\* self.data[k] = v: an existing key keeps its place, a new key goes last
dict_set(b, k, v) ==
    IF HasKey(b, k)
    THEN [i \in DOMAIN b |-> IF b[i].key = k THEN [key |-> k, id |-> v] ELSE b[i]]
    ELSE Append(b, [key |-> k, id |-> v])

\* self.data.get(k, None)
dict_get(b, k) ==
    IF HasKey(b, k)
    THEN Some(b[CHOOSE i \in DOMAIN b : b[i].key = k].id)
    ELSE None

\* del self.data[k]
dict_del(b, k) == SelectSeq(b, LAMBDA e : e.key # k)

\* self.data.values()
Values(s) == [i \in DOMAIN s.book |-> s.heap[s.book[i].id]]

\* the history of add_record: the Records now in the book, in the order of the
\* calls that put them there (a Record added again while it is in the book
\* keeps the place of its first call)
NoteAdded(s, record) ==
    IF \E i \in DOMAIN s.added : s.added[i] = record THEN s.added
    ELSE Append(SelectSeq(s.added,
                          LAMBDA r : s.heap[r].name # s.heap[record].name),
                record)

\* an insertion that keeps the Record already stored under the name
add_record_setdefault(s, record) ==
    LET key == s.heap[record].name IN
    IF \E i \in DOMAIN s.book : s.book[i].key = key THEN Ok(s, None)
    ELSE Ok([s EXCEPT !.book = Append(@, [key |-> key, id |-> record]),
                      !.added = NoteAdded(s, record)],
            None)

\* AddressBook.add_record
add_record(s, record) ==
    LET key == s.heap[record].name IN
    Ok([s EXCEPT !.book = dict_set(@, key, record),
                 !.added = NoteAdded(s, record)],
       None)

find(s, name) == Ok(s, dict_get(s.book, name))

delete(s, name) ==
    IF HasKey(s.book, name)
    THEN Ok([s EXCEPT !.book = dict_del(@, name),
                      !.added = SelectSeq(@, LAMBDA r : s.heap[r].name # name)],
            None)
    ELSE Raise("ValueError", s)

\* the loop of get_upcoming_birthdays over values[i..], upcoming_birthdays so far
RECURSIVE upcoming_from(_, _, _, _)
upcoming_from(values, i, now, upcoming_birthdays) ==
    IF i > Len(values) THEN Val(upcoming_birthdays)
    ELSE LET record == values[i] IN
         IF record.birthday = None
         THEN upcoming_from(values, i + 1, now, upcoming_birthdays)
         ELSE LET birthday == record.birthday[1]
                  this_year == replace_year(birthday, now.y)
              IN
              IF this_year.err # "none" THEN this_year
              ELSE LET birthday_this_year ==
                           IF toordinal(this_year.value) < toordinal(now)
                           THEN replace_year(this_year.value, now.y + 1)
                           ELSE this_year
                   IN
                   IF birthday_this_year.err # "none" THEN birthday_this_year
                   ELSE LET days_until_birthday ==
                                toordinal(birthday_this_year.value) - toordinal(now)
                        IN
                        IF 0 <= days_until_birthday /\ days_until_birthday <= days
                        THEN upcoming_from(values, i + 1, now,
                                 Append(upcoming_birthdays,
                                        [Name |-> record.name,
                                         birthday_date |->
                                             strftime(birthday_this_year.value)]))
                        ELSE upcoming_from(values, i + 1, now, upcoming_birthdays)

\* AddressBook.get_upcoming_birthdays; now is datetime.now().date().  The
\* returned text is modelled by the list it interpolates; the empty list stands
\* for "No one has birthday in the next 7 days."
get_upcoming_birthdays(s, now) ==
    LET r == upcoming_from(Values(s), 1, now, <<>>) IN
    IF r.err # "none" THEN Raise(r.err, s) ELSE Ok(s, r.value)

\* AddressBook.__str__, as the lines after "Your contacts:"
AddressBook_str(s) == Ok(s, [i \in DOMAIN s.book |-> Record_str(s.heap[s.book[i].id])])

(* -------------------------------------------------------------- handlers *)

\* input_error.inner: the exception of the wrapped handler becomes a message
input_error(r) ==
    CASE r.err = "ValueError" -> Ok(r.s, "Give me name and phone please.")
      [] r.err = "KeyError" -> Ok(r.s, "Contact not found...")
      [] r.err = "IndexError" -> Ok(r.s, "Enter a valid command with necessary arguments.")
      [] OTHER -> r

\* A Record that no book entry refers to any more is gone once the handler that
\* dropped the last reference returns: the remaining objects are renumbered in
\* their order.
release(s) ==
    LET live == {s.book[i].id : i \in DOMAIN s.book}
        new(id) == Cardinality({j \in live : j <= id})
    IN [heap |-> [k \in 1..Cardinality(live) |->
                     s.heap[CHOOSE j \in live : new(j) = k]],
        book |-> [i \in DOMAIN s.book |-> [key |-> s.book[i].key,
                                           id |-> new(s.book[i].id)]],
        added |-> [i \in DOMAIN s.added |-> new(s.added[i])]]

\* name, phone, *_ = args raises ValueError when args is too short
add_contact(s, args) ==
    IF Len(args) < 2 THEN Raise("ValueError", s)
    ELSE LET name == capitalize(args[1])
             phone == args[2]
             found == find(s, name).ret
             made == IF found = None THEN Record(s, name) ELSE Ok(s, found[1])
         IN
         IF made.err # "none" THEN made
         ELSE LET record == made.ret
                  s1 == IF found = None THEN add_record(made.s, record).s ELSE made.s
                  message == IF found = None THEN "Contact added." ELSE "Contact updated."
                  r == IF Len(phone) > 0 THEN add_phone(s1, record, phone) ELSE Ok(s1, None)
              IN
              IF r.err # "none" THEN r ELSE Ok(r.s, message)

change_contact(s, args) ==
    IF Len(args) < 3 THEN Raise("ValueError", s)
    ELSE LET name == capitalize(args[1])
             old_phone == args[2]
             new_phone == args[3]
             record == find(s, name).ret
         IN
         IF record # None
         THEN LET r == edit_phone(s, record[1], old_phone, new_phone) IN
              IF r.err # "none" THEN r ELSE Ok(r.s, "Contact updated")
         ELSE Ok(s, "Contact not found")

delete_number(s, args) ==
    IF Len(args) < 2 THEN Raise("ValueError", s)
    ELSE LET name == capitalize(args[1])
             phone == args[2]
             record == find(s, name).ret
         IN
         IF record # None
         THEN Ok(delete_phone(s, record[1], phone).s, "Phone number deleted.")
         ELSE Ok(s, "Contact not found")

delete_contact(s, args) ==
    IF Len(args) < 1 THEN Raise("ValueError", s)
    ELSE LET name == capitalize(args[1])
             r == delete(s, name)
         IN
         IF r.err # "none" THEN r ELSE Ok(release(r.s), "Contact deleted.")

\* the handler add_birthday(args, book)
add_birthday_handler(s, args, now) ==
    IF Len(args) < 2 THEN Raise("ValueError", s)
    ELSE LET name == capitalize(args[1])
             birthday == args[2]
             record == find(s, name).ret
         IN
         IF record # None
         THEN LET r == add_birthday(s, record[1], birthday, now) IN
              IF r.err # "none" THEN r ELSE Ok(r.s, "Birthday added to contact")
         ELSE Ok(s, "Contact not found.")

(* ---------------------------------------------------------------- inputs *)

Date(y, m, d) == [y |-> y, m |-> m, d |-> d]

ValidDate(dt) == dt.d <= DaysInMonth(dt.y, dt.m)

P1 == Rep("1", 10)

P2 == Rep("2", 10)

PSup == Rep("sup2", 10)

PhoneInputs ==
    {P1, P2, PSup, Rep("1", 9), Rep("1", 11), Rep("1", 9) \o <<"a">>, <<>>}

\* the numbers looked up, deleted and replaced
StoredInputs == {P1, P2, PSup, Rep("1", 9)}

Al == <<"A", "l">>

Bo == <<"B", "o">>

NameInputs == {Al, Bo, <<"A">>, <<>>}

B_15_06_1990 == <<"1", "5", ".", "0", "6", ".", "1", "9", "9", "0">>

B_29_02_2020 == <<"2", "9", ".", "0", "2", ".", "2", "0", "2", "0">>

B_10_06_2024 == <<"1", "0", ".", "0", "6", ".", "2", "0", "2", "4">>

B_11_06_2024 == <<"1", "1", ".", "0", "6", ".", "2", "0", "2", "4">>

B_30_02_2023 == <<"3", "0", ".", "0", "2", ".", "2", "0", "2", "3">>

B_5_6_2020 == <<"5", ".", "6", ".", "2", "0", "2", "0">>

B_iso == <<"1", "9", "9", "0", "-", "0", "6", "-", "1", "5">>

BirthdayInputs ==
    {B_15_06_1990, B_29_02_2020, B_10_06_2024, B_11_06_2024, B_30_02_2023,
     B_5_6_2020, B_iso}

BookBirthdayInputs == {B_15_06_1990, B_iso}

Todays == {Date(2024, 6, 10)}

\* the tokens user_input.split() hands to the handlers: none is empty
NameTokens == {<<"a", "l">>, <<"B", "O">>, <<"a">>}

PhoneTokens == {P1, P2, Rep("1", 9)}

BirthdayTokens == {B_15_06_1990, B_11_06_2024, B_iso}

(* --------------------------------------------------------------- actions *)

St == [heap |-> heap, book |-> book, added |-> added]

Snapshot == [heap |-> heap, book |-> book]

\* one call: the store it leaves, and what it was called with and answered
Step(op, args, result) ==
    \E r \in {result} :
        /\ heap' = r.s.heap
        /\ book' = r.s.book
        /\ added' = r.s.added
        /\ last' = [op |-> op, args |-> args, err |-> r.err, ret |-> r.ret,
                    pre |-> Snapshot]
        /\ UNCHANGED today

Call_Record(names) ==
    \E name \in names :
        /\ Len(heap) < MaxRecs
        /\ Step("Record", <<name>>, Record(St, name))

Call_add_phone(numbers, cap) ==
    \E id \in DOMAIN heap, number \in numbers :
        /\ Len(heap[id].phones) < cap \/ Phone(number).err # "none"
        /\ Step("add_phone", <<id, number>>, add_phone(St, id, number))

Call_delete_phone(numbers) ==
    \E id \in DOMAIN heap, number \in numbers :
        Step("delete_phone", <<id, number>>, delete_phone(St, id, number))

Call_find_phone(numbers) ==
    \E id \in DOMAIN heap, number \in numbers :
        Step("find_phone", <<id, number>>, find_phone(St, id, number))

Call_edit_phone(old_numbers, new_numbers) ==
    \E id \in DOMAIN heap, old_number \in old_numbers, new_number \in new_numbers :
        Step("edit_phone", <<id, old_number, new_number>>,
             edit_phone(St, id, old_number, new_number))

Call_add_birthday(dates) ==
    \E id \in DOMAIN heap, date \in dates :
        Step("add_birthday", <<id, date>>, add_birthday(St, id, date, today))

Call_Record_str ==
    \E id \in DOMAIN heap :
        Step("Record_str", <<id>>, Ok(St, Record_str(heap[id])))

Call_add_record ==
    \E record \in DOMAIN heap :
        Step("add_record", <<record>>, add_record(St, record))

Call_find(names) ==
    \E name \in names : Step("find", <<name>>, find(St, name))

Call_delete(names) ==
    \E name \in names : Step("delete", <<name>>, delete(St, name))

Call_get_upcoming_birthdays ==
    Step("get_upcoming_birthdays", <<>>, get_upcoming_birthdays(St, today))

Call_AddressBook_str == Step("AddressBook_str", <<>>, AddressBook_str(St))

\* the command adds no phone to a phone list of MaxCmdPhones
MayAdd(args) ==
    IF Len(args) < 2 THEN TRUE
    ELSE LET found == find(St, capitalize(args[1])).ret IN
         IF found = None THEN TRUE
         ELSE Len(heap[found[1]].phones) < MaxCmdPhones \/ Phone(args[2]).err # "none"

Cmd_add_contact ==
    \E args \in {<<>>} \cup {<<n>> : n \in NameTokens}
                 \cup {<<n, p>> : n \in NameTokens, p \in PhoneTokens} :
        /\ MayAdd(args)
        /\ Step("add_contact", args, input_error(add_contact(St, args)))

Cmd_change_contact ==
    \E args \in {<<n, p>> : n \in NameTokens, p \in PhoneTokens}
                 \cup {<<n, p, q>> : n \in NameTokens, p \in PhoneTokens,
                                     q \in PhoneTokens} :
        Step("change_contact", args, input_error(change_contact(St, args)))

Cmd_delete_number ==
    \E args \in {<<n>> : n \in NameTokens}
                 \cup {<<n, p>> : n \in NameTokens, p \in PhoneTokens} :
        Step("delete_number", args, input_error(delete_number(St, args)))

Cmd_delete_contact ==
    \E args \in {<<>>} \cup {<<n>> : n \in NameTokens} :
        Step("delete_contact", args, input_error(delete_contact(St, args)))

Cmd_add_birthday ==
    \E args \in {<<n>> : n \in NameTokens}
                 \cup {<<n, b>> : n \in NameTokens, b \in BirthdayTokens} :
        Step("add_birthday", args, input_error(add_birthday_handler(St, args, today)))

(* -------------------------------------------------------- specifications *)

Empty == [heap |-> <<>>, book |-> <<>>, added |-> <<>>]

Start(s, days_) ==
    /\ today \in days_
    /\ heap = s.heap
    /\ book = s.book
    /\ added = s.added
    /\ last = [op |-> "init", args |-> <<>>, err |-> "none", ret |-> None,
               pre |-> [heap |-> s.heap, book |-> s.book]]

\* the Record and AddressBook API, from book = AddressBook()
Init == Start(Empty, Todays)

Next ==
    \/ Call_Record(NameInputs)
    \/ Call_add_birthday(BookBirthdayInputs)
    \/ Call_add_record
    \/ Call_find(NameInputs)
    \/ Call_delete(NameInputs)
    \/ Call_get_upcoming_birthdays
    \/ Call_AddressBook_str

Spec == Init /\ [][Next]_vars

\* one Record, from record = Record(name)
RecordInit == \E name \in {Al, Bo} : Start(Record(Empty, name).s, Todays)

RecordNext ==
    \/ Call_add_phone(PhoneInputs, MaxPhones)
    \/ Call_delete_phone(StoredInputs)
    \/ Call_find_phone(StoredInputs)
    \/ Call_edit_phone(StoredInputs, PhoneInputs)
    \/ Call_add_birthday(BirthdayInputs)
    \/ Call_Record_str

SpecRecord == RecordInit /\ [][RecordNext]_vars

\* the command handlers of main(), from book = AddressBook()
CmdInit == Start(Empty, Todays)

CmdNext ==
    \/ Cmd_add_contact
    \/ Cmd_change_contact
    \/ Cmd_delete_number
    \/ Cmd_delete_contact
    \/ Cmd_add_birthday

SpecCmd == CmdInit /\ [][CmdNext]_vars

\* the birthday query as a function of the book and the current date: a book
\* of one or two Records with birthdays, on every day of the months around the
\* turn of the year and the end of February, of a common and of a leap year
BdayDates == {dt \in [y : {2020}, m : 1..12, d : 1..31] : ValidDate(dt)}

BdayTodays ==
    {dt \in [y : {2023, 2024}, m : {1, 2, 3, 12}, d : 1..31] : ValidDate(dt)}

WithBirthday(name, dt) == [name |-> name, phones |-> <<>>, birthday |-> Some(dt)]

BdayInit ==
    \E dt \in BdayDates, two \in BOOLEAN :
        LET h == IF two
                 THEN <<WithBirthday(Al, dt), WithBirthday(Bo, Date(2020, 2, 29))>>
                 ELSE <<WithBirthday(Al, dt)>>
            b == [i \in DOMAIN h |-> [key |-> h[i].name, id |-> i]]
        IN Start([heap |-> h, book |-> b, added |-> [i \in DOMAIN h |-> i]],
                 BdayTodays)

BdayNext == Call_get_upcoming_birthdays

SpecBday == BdayInit /\ [][BdayNext]_vars

(* ---------------------------------------------------------------- claims *)

RECURSIVE Without(_, _)
Without(seq, x) ==
    IF seq = <<>> THEN <<>>
    ELSE IF Head(seq) = x THEN Without(Tail(seq), x)
    ELSE <<Head(seq)>> \o Without(Tail(seq), x)

Count(seq, x) == Cardinality({i \in DOMAIN seq : seq[i] = x})

Range(seq) == {seq[i] : i \in DOMAIN seq}

\* ^\d{10}$ : exactly ten decimal digits
TenDecimalDigits(v) == Len(v) = 10 /\ \A i \in DOMAIN v : v[i] \in AsciiDigits

\* DD.MM.YYYY with calendar values
IsDDMMYYYY(v) ==
    /\ Len(v) = 10
    /\ v[3] = "." /\ v[6] = "."
    /\ \A i \in {1, 2, 4, 5, 7, 8, 9, 10} : v[i] \in AsciiDigits
    /\ LET d == 10 * DigitVal[v[1]] + DigitVal[v[2]]
           m == 10 * DigitVal[v[4]] + DigitVal[v[5]]
           y == 1000 * DigitVal[v[7]] + 100 * DigitVal[v[8]]
                    + 10 * DigitVal[v[9]] + DigitVal[v[10]]
       IN y >= 1 /\ m \in 1..12 /\ d >= 1 /\ d <= DaysInMonth(y, m)

DateOfDDMMYYYY(v) ==
    Date(1000 * DigitVal[v[7]] + 100 * DigitVal[v[8]] + 10 * DigitVal[v[9]]
             + DigitVal[v[10]],
         10 * DigitVal[v[4]] + DigitVal[v[5]],
         10 * DigitVal[v[1]] + DigitVal[v[2]])

\* the error kind of a failed validation: what Name, Phone and Birthday raise
ValidationError == "ValueError"

Unchanged == heap = last.pre.heap /\ book = last.pre.book

\* the Record a Record-level call was made on, before and after the call
Before == last.pre.heap[last.args[1]]

After == heap[last.args[1]]

\* Every call that raises leaves every Record and the book as they were, and
\* raises ValueError.
FailedCallChangesNothing ==
    last.err # "none" => last.err = "ValueError" /\ Unchanged

\* C3: edit_phone(old, new) on a Record holding old, with new of ten decimal
\* digits, returns and leaves the earlier phones without any old, in their
\* order, followed by one new.
C3_EditPhoneReplaces ==
    (/\ last.op = "edit_phone"
     /\ Count(Before.phones, last.args[2]) >= 1
     /\ TenDecimalDigits(last.args[3]))
    => /\ last.err = "none"
       /\ After.phones = Without(Before.phones, last.args[2]) \o <<last.args[3]>>

\* C3: an edit of a number held twice, with another number between the two
C3_Witness ==
    /\ last.op = "edit_phone"
    /\ last.err = "none"
    /\ TenDecimalDigits(last.args[3])
    /\ Len(Before.phones) = 3
    /\ Before.phones[1] = last.args[2]
    /\ Before.phones[2] # last.args[2]
    /\ Before.phones[3] = last.args[2]
    /\ Len(After.phones) = 2

\* C4: add_phone with a number that is not ten decimal digits, edit_phone
\* with an old number the Record does not hold, edit_phone with a held old
\* number and a new number that is not ten decimal digits, and add_birthday
\* with a text that is no DD.MM.YYYY calendar date or is a date after today:
\* each raises the validation error and leaves the Record as it was.
C4_InvalidMutationFailsUnchanged ==
    /\ (last.op = "add_phone" /\ ~TenDecimalDigits(last.args[2]))
       => last.err = ValidationError /\ Unchanged
    /\ (last.op = "edit_phone" /\ Count(Before.phones, last.args[2]) = 0)
       => last.err = ValidationError /\ Unchanged
    /\ (/\ last.op = "edit_phone"
        /\ Count(Before.phones, last.args[2]) >= 1
        /\ ~TenDecimalDigits(last.args[3]))
       => last.err = ValidationError /\ Unchanged
    /\ (/\ last.op = "add_birthday"
        /\ \/ ~IsDDMMYYYY(last.args[2])
           \/ toordinal(DateOfDDMMYYYY(last.args[2])) > toordinal(today))
       => last.err = ValidationError /\ Unchanged

\* C5: every stored phone is ten decimal digits, every name has at least two
\* characters, and add_phone and edit_phone (with a held old number) accept a
\* number exactly when it is ten decimal digits.
C5_PhonesAreTenDecimalDigits ==
    /\ \A id \in DOMAIN heap :
          /\ Len(heap[id].name) >= 2
          /\ \A i \in DOMAIN heap[id].phones : TenDecimalDigits(heap[id].phones[i])
    /\ last.op = "add_phone"
       => (last.err = "none" <=> TenDecimalDigits(last.args[2]))
    /\ (last.op = "edit_phone" /\ Count(Before.phones, last.args[2]) >= 1)
       => (last.err = "none" <=> TenDecimalDigits(last.args[3]))

\* C6: delete_phone(number) returns, removes every phone equal to number and
\* keeps the others in their order; the name and the birthday stay, and with
\* no phone equal to number the Record stays as it was.
C6_DeletePhoneRemovesAll ==
    last.op = "delete_phone"
    => /\ last.err = "none"
       /\ After.phones = Without(Before.phones, last.args[2])
       /\ After.name = Before.name
       /\ After.birthday = Before.birthday
       /\ book = last.pre.book
       /\ Count(Before.phones, last.args[2]) = 0 => heap = last.pre.heap

\* C6: a delete of a number held twice, with another number between the two
C6_Witness ==
    /\ last.op = "delete_phone"
    /\ Len(Before.phones) = 3
    /\ Before.phones[1] = last.args[2]
    /\ Before.phones[2] # last.args[2]
    /\ Before.phones[3] = last.args[2]
    /\ After.phones = <<Before.phones[2]>>

BookIds == [i \in DOMAIN book |-> book[i].id]

\* C7: the book holds one entry per name; it is the Record most recently added
\* under that name; add_record changes no Record (nothing of an earlier
\* Record is merged into the new one) and no entry under another name.
C7_AddRecordReplaces ==
    /\ \A i, j \in DOMAIN book : book[i].key = book[j].key => i = j
    /\ \A i \in DOMAIN book : heap[book[i].id].name = book[i].key
    /\ Range(BookIds) = Range(added)
    /\ last.op = "add_record"
       => LET record == last.args[1]
              key == heap[record].name
          IN /\ last.err = "none"
             /\ heap = last.pre.heap
             /\ [key |-> key, id |-> record] \in Range(book)
             /\ {e \in Range(book) : e.key # key}
                    = {e \in Range(last.pre.book) : e.key # key}

\* C7: a Record without birthday added under the name of another Record that
\* has one, next to an entry under another name
C7_Witness ==
    /\ last.op = "add_record"
    /\ Len(book) = 2
    /\ LET record == last.args[1]
           key == heap[record].name
       IN /\ \E e \in Range(last.pre.book) :
                 /\ e.key = key
                 /\ e.id # record
                 /\ heap[e.id].birthday # None
          /\ heap[record].birthday = None
          /\ \E e \in Range(book) : e.key = key /\ heap[e.id].birthday = None

\* C8: delete(name) of a name that is no key raises an error that is not the
\* validation error and leaves the book as it was; delete of a key removes
\* that entry and no other; find raises nothing.
C8_DeleteNotFound ==
    /\ last.op = "delete"
       => IF \E e \in Range(last.pre.book) : e.key = last.args[1]
          THEN /\ last.err = "none"
               /\ book = SelectSeq(last.pre.book, LAMBDA e : e.key # last.args[1])
               /\ Len(book) = Len(last.pre.book) - 1
          ELSE /\ last.err \notin {"none", ValidationError}
               /\ Unchanged
    /\ last.op = "find" => last.err = "none"

NamesOf(entries) == [i \in DOMAIN entries |-> entries[i].Name]

AddedNames == [i \in DOMAIN added |-> heap[added[i]].name]

\* C9, as stated: the lines of the rendering, and the entries of the birthday
\* query, come in the order in which their Records were added.
C9_OrderAsAdded ==
    /\ last.op = "AddressBook_str"
       => [i \in DOMAIN last.ret |-> last.ret[i].name] = AddedNames
    /\ (last.op = "get_upcoming_birthdays" /\ last.err = "none")
       => NamesOf(last.ret)
              = SelectSeq(AddedNames, LAMBDA n : n \in Range(NamesOf(last.ret)))

\* C9, amended: the lines and the query's entries come in the order of the
\* book's keys; add_record of a name that is a key leaves the order of the keys
\* as it was, add_record of a new name puts it last, and delete removes the
\* name and keeps the order of the others.
C9_KeyOrder ==
    /\ last.op = "AddressBook_str"
       => /\ Len(last.ret) = Len(book)
          /\ \A i \in DOMAIN book :
                /\ last.ret[i].name = book[i].key
                /\ last.ret[i].phones = heap[book[i].id].phones
    /\ (last.op = "get_upcoming_birthdays" /\ last.err = "none")
       => NamesOf(last.ret)
              = SelectSeq(Keys(book), LAMBDA n : n \in Range(NamesOf(last.ret)))
    /\ last.op = "add_record"
       => LET key == heap[last.args[1]].name IN
          Keys(book) = IF key \in Range(Keys(last.pre.book))
                       THEN Keys(last.pre.book)
                       ELSE Append(Keys(last.pre.book), key)
    /\ (last.op = "delete" /\ last.err = "none")
       => Keys(book) = Without(Keys(last.pre.book), last.args[1])

\* C9: a query answering with two entries from a book in which the Record
\* added last stands first
C9_Witness ==
    /\ last.op = "get_upcoming_birthdays"
    /\ last.err = "none"
    /\ Len(last.ret) = 2
    /\ Len(added) = 2
    /\ BookIds # added

ErrorMessages ==
    {"Give me name and phone please.", "Contact not found...",
     "Enter a valid command with necessary arguments."}

\* C10: a command answered with a message of input_error leaves every Record
\* and the book as they were before the command.
C10_ErrorLeavesBookUnchanged ==
    (last.op # "init" /\ last.ret \in ErrorMessages) => Unchanged

\* the occurrence of a birthday in a year, where that day exists
OccursIn(birthday, year) == ValidDate(Date(year, birthday.m, birthday.d))

\* days from now to the next occurrence of the birthday's month and day
DaysUntil(birthday, now) ==
    LET this == Date(now.y, birthday.m, birthday.d)
        next == IF toordinal(this) < toordinal(now)
                THEN Date(now.y + 1, birthday.m, birthday.d)
                ELSE this
    IN toordinal(next) - toordinal(now)

\* the next occurrence of the birthday is a day of the calendar
HasNextOccurrence(birthday, now) ==
    /\ OccursIn(birthday, now.y)
    /\ toordinal(Date(now.y, birthday.m, birthday.d)) < toordinal(now)
       => OccursIn(birthday, now.y + 1)

InResult(name) ==
    /\ last.err = "none"
    /\ \E i \in DOMAIN last.ret : last.ret[i].Name = name

\* C1: the query reports a Record with a birthday exactly when the next
\* occurrence of the birthday is at most 7 days after today, today included;
\* a Record without birthday is not reported.
C1_UpcomingIffWithinWindow ==
    last.op = "get_upcoming_birthdays"
    => \A i \in DOMAIN book :
          LET record == heap[book[i].id] IN
          IF record.birthday = None THEN ~InResult(record.name)
          ELSE HasNextOccurrence(record.birthday[1], today)
               => (InResult(record.name)
                     <=> /\ 0 <= DaysUntil(record.birthday[1], today)
                         /\ DaysUntil(record.birthday[1], today) <= 7)

IsLeapDay(birthday) == birthday.m = 2 /\ birthday.d = 29

\* C1 for a book without a birthday on 29 February
UpcomingWithoutLeapDay ==
    (\A i \in DOMAIN book :
        heap[book[i].id].birthday # None => ~IsLeapDay(heap[book[i].id].birthday[1]))
    => C1_UpcomingIffWithinWindow

\* C2: the query on a book holding a Record born on 29 February returns a
\* result whatever today is.
C2_LeapDayHandled ==
    (/\ last.op = "get_upcoming_birthdays"
     /\ \E i \in DOMAIN book :
           /\ heap[book[i].id].birthday # None
           /\ IsLeapDay(heap[book[i].id].birthday[1]))
    => last.err = "none"

====
